---- MODULE Spec2Model ----
(***************************************************************************)
(* llm-conversations-viewer: the application state (js/app.js), the        *)
(* storage facade (js/utils/storage.js) and the IndexedDB wrapper          *)
(* (js/utils/indexeddb.js) as a state machine.                             *)
(*                                                                         *)
(* Backend A is localStorage (one JSON blob under STORAGE_KEY), backend B  *)
(* is the IndexedDB object store keyed by conversation id.  Every async    *)
(* function in flight is a "call" in a slot; it advances at its awaits.    *)
(***************************************************************************)
EXTENDS Integers, Sequences, FiniteSets, TLC

VARIABLES
    conversations,          \* AppState.conversations
    currentConversationId,  \* AppState.currentConversationId (NoId = null)
    appPhase,               \* "new" before App.init ran, "ready" after
    ls,                     \* backend A: the value under STORAGE_KEY
    idb,                    \* backend B: the committed records of the store
    initPromise,            \* IndexedDBWrapper.initPromise / this.db
    txQueue,                \* IndexedDB transactions, in creation order
    calls,                  \* the async calls in flight, by slot
    settled,                \* history: the call that finished in the last step
    added,                  \* history: the addConversations merge of the last step
    prov,                   \* history: how each entry came into the loaded set
    raw,                    \* the parsed JSON a parser function is called with
    walk,                   \* parseOpenAI: the state of the walk loop, lines 38-66
    result                  \* what the parser function returned or threw

vars == <<conversations, currentConversationId, appPhase, ls, idb, initPromise,
          txQueue, calls, settled, added, prov, raw, walk, result>>

\* the parsers have no part in the storage and the application state
parseVars == <<raw, walk, result>>

----------------------------------------------------------------------------
(* Bounds and value spaces *)

MaxId == 2
MaxBatch == 2
MaxCalls == 2

NoId == 0
Ids == 1..MaxId
Conv == [id : Ids]
Lists == UNION {[1..n -> Conv] : n \in 0..MaxBatch}
Slots == 1..MaxCalls

ToSet(list) == {list[i] : i \in 1..Len(list)}
IdsOf(list) == {list[i].id : i \in 1..Len(list)}
UniqueIds(list) == \A i, j \in 1..Len(list) : list[i].id = list[j].id => i = j
Stores == {S \in SUBSET Conv : \A x, y \in S : x.id = y.id => x = y}

RECURSIVE SortById(_)
SortById(S) ==
    IF S = {} THEN <<>>
    ELSE LET m == CHOOSE x \in S : \A y \in S : x.id <= y.id
         IN <<m>> \o SortById(S \ {m})

----------------------------------------------------------------------------
(* Backend A: localStorage under STORAGE_KEY *)

NoKey == [kind |-> "none", data |-> <<>>]
LsValues ==
    {NoKey,
     [kind |-> "empty", data |-> <<>>],      \* the empty string
     [kind |-> "corrupt", data |-> <<>>],    \* text JSON.parse rejects
     [kind |-> "badshape", data |-> <<>>]}   \* JSON that is no array of conversations
    \cup {[kind |-> "blob", data |-> l] : l \in Lists}

RemoveItemKeepsArray(l) == [kind |-> "blob", data |-> <<>>]
RemoveItem(l) == NoKey

LoadFromLocalStorageNoHeal(l) ==
    IF l.kind = "blob" THEN [ret |-> l.data, ls |-> l] ELSE [ret |-> <<>>, ls |-> l]
LoadFromLocalStorage(l) ==
    IF l.kind \in {"none", "empty"} THEN [ret |-> <<>>, ls |-> l]
    ELSE IF l.kind \in {"corrupt", "badshape"} THEN [ret |-> <<>>, ls |-> RemoveItem(l)]
    ELSE [ret |-> l.data, ls |-> l]

----------------------------------------------------------------------------
(* Backend B: the IndexedDB object store, keyPath 'id' *)

AnyConv == CHOOSE c \in Conv : TRUE
ClearReq == [k |-> "clear", c |-> AnyConv]
AddReq(c) == [k |-> "add", c |-> c]
GetAllReq == [k |-> "getAll", c |-> AnyConv]

\* IndexedDBWrapper.init: the open request is issued once and its promise cached
\* init() without the assignment to this.initPromise
InitCalledUncached(p) == p
InitCalled(p) == IF p = "null" THEN "pending" ELSE p

\* one request of a transaction applied to the transaction's view of the store;
\* add() of a key that is present fails with ConstraintError
ApplyRequest(buf, r) ==
    IF r.k = "clear" THEN [ok |-> TRUE, buf |-> {}]
    ELSE IF r.k = "add"
         THEN IF \E x \in buf : x.id = r.c.id
              THEN [ok |-> FALSE, buf |-> buf]
              ELSE [ok |-> TRUE, buf |-> buf \cup {r.c}]
         ELSE [ok |-> TRUE, buf |-> buf]

\* the requests of a transaction, in order, on the transaction's view of the store
RECURSIVE RunRequests(_, _)
RunRequests(buf, reqs) ==
    IF reqs = <<>> THEN [ok |-> TRUE, buf |-> buf]
    ELSE LET r == ApplyRequest(buf, Head(reqs)) IN
         IF r.ok THEN RunRequests(r.buf, Tail(reqs)) ELSE [ok |-> FALSE, buf |-> buf]

NewTx(s, kind, reqs, first, final) ==
    [call |-> s, kind |-> kind, reqs |-> reqs, first |-> first, final |-> final]

\* clear() in a transaction of its own, the add()s in a second one
SaveTransactionsSplit(s, list) ==
    << NewTx(s, "save", <<ClearReq>>, TRUE, FALSE),
       NewTx(s, "save", [i \in 1..Len(list) |-> AddReq(list[i])], FALSE, TRUE) >>
\* IndexedDBWrapper.saveConversations: clear() and every add() in one transaction
SaveTransactions(s, list) ==
    << NewTx(s, "save", <<ClearReq>> \o [i \in 1..Len(list) |-> AddReq(list[i])],
             TRUE, TRUE) >>

\* IndexedDBWrapper.loadConversations: getAll() in a readonly transaction
LoadTransactions(s) == << NewTx(s, "load", <<GetAllReq>>, TRUE, TRUE) >>

\* IndexedDBWrapper.clearConversations: clear() in a readwrite transaction
ClearTransactions(s) == << NewTx(s, "clear", <<ClearReq>>, TRUE, TRUE) >>

\* a new transaction runs before the ones that wait
EnqueueFirst(q, txs) == txs \o q
\* transactions whose scopes overlap run in the order of their creation
Enqueue(q, txs) == q \o txs

Transactions(s, stage, list) ==
    IF stage = "idbSave" THEN SaveTransactions(s, list)
    ELSE IF stage = "idbLoad" THEN LoadTransactions(s)
    ELSE ClearTransactions(s)

----------------------------------------------------------------------------
(* Calls in flight *)

\* list: the argument of the save; a: what backend A held when the call read it;
\* pre: backend B's content when the call began, or when it first read or wrote it;
\* n: newConversations.length of an addConversations call; len0: the size of the
\* loaded set when it was called; fresh: the distinct ids it found not loaded;
\* before: the slots of the calls that were in flight when it was issued;
\* during: whether App.init's load was in flight when it was issued
Idle == [op |-> "idle", stage |-> "-", pc |-> "-", list |-> <<>>,
         a |-> NoKey, pre |-> {}, n |-> 0, len0 |-> 0, fresh |-> 0, before |-> {},
         during |-> FALSE]

NewCall(op, stage, list) ==
    [op |-> op, stage |-> stage, pc |-> "init", list |-> list, a |-> NoKey, pre |-> idb,
     n |-> 0, len0 |-> 0, fresh |-> 0, before |-> {t \in Slots : calls[t].op # "idle"},
     during |-> \E t \in Slots : calls[t].op = "appInit"]

\* ls0: what backend A held just before the call finished; slot: the call's slot
Unsettled == [op |-> "none", status |-> "none", ok |-> FALSE, list |-> <<>>,
              a |-> NoKey, pre |-> {}, path |-> "-", ls0 |-> NoKey,
              n |-> 0, len0 |-> 0, fresh |-> 0, before |-> {}, slot |-> 0,
              during |-> FALSE]

NotAdded == [valid |-> FALSE, batch |-> <<>>, before |-> <<>>, n |-> 0,
             repeat |-> FALSE]

Free(s) == calls[s].op = "idle" /\ \A t \in Slots : t < s => calls[t].op # "idle"

NoCallInFlight == \A s \in Slots : calls[s].op = "idle"

\* the open request has finished and code awaiting init() has not yet resumed:
\* these continuations are microtasks, they run before any other event
Draining == initPromise \in {"resolved", "rejected"} /\ \E s \in Slots : calls[s].pc = "init"

----------------------------------------------------------------------------
(* AppState *)

\* the merge with the filter left out
MergeNoFilter(S, B) == S \o B
\* the merge with an incoming entry taking the place of the loaded one of its id
MergeReplacing(S, B) ==
    LET Fresh(c) == c.id \notin IdsOf(S)
        Latest(c) == IF \E j \in 1..Len(B) : B[j].id = c.id
                     THEN B[CHOOSE j \in 1..Len(B) : B[j].id = c.id]
                     ELSE c
    IN [i \in 1..Len(S) |-> Latest(S[i])] \o SelectSeq(B, Fresh)
\* AppState.addConversations, lines 28-31: entries whose id is loaded are dropped
Merge(S, B) ==
    LET Fresh(c) == c.id \notin IdsOf(S) IN S \o SelectSeq(B, Fresh)

\* newConversations.length
NewCount(S, B) ==
    LET Fresh(c) == c.id \notin IdsOf(S) IN Len(SelectSeq(B, Fresh))

\* the listener without the auto-selection
EmittedKeepsSelection(cur, convs) == cur
\* the conversations-updated listener: auto-select the first conversation
Emitted(cur, convs) ==
    IF cur = NoId /\ Len(convs) > 0 THEN convs[1].id ELSE cur

\* provenance of the entries of a list: "file" (file import or storage) wins over "url"
Mark(p, list, how) ==
    [c \in Conv |-> IF c \in ToSet(list)
                    THEN (IF p[c] = "file" \/ how = "file" THEN "file" ELSE "url")
                    ELSE p[c]]

CurrentApp == [conv |-> conversations, cur |-> currentConversationId, prov |-> prov]

\* what the caller in app.js does once its await is over
AppEffect(c, status, list, app) ==
    IF c.op = "appInit" /\ status = "fulfilled" /\ Len(list) > 0
    THEN \* App.init, lines 132-135: no event is emitted
         [app EXCEPT !.conv = list, !.prov = Mark(app.prov, list, "file")]
    ELSE IF c.op = "handler" /\ status = "fulfilled"
    THEN \* addConversations, line 38: emit('conversations-updated')
         [app EXCEPT !.cur = Emitted(app.cur, app.conv)]
    ELSE app

----------------------------------------------------------------------------
(* The end of a call: the promise settles and the caller's continuation runs *)

\* status is "fulfilled" or "rejected"; ok is the boolean a save resolves to
Settle(s, c, status, ok, list, path, app) ==
    LET r == AppEffect(c, status, list, app) IN
    /\ calls' = [calls EXCEPT ![s] = Idle]
    /\ settled' = [op |-> c.op, status |-> status, ok |-> ok, list |-> list,
                   a |-> c.a, pre |-> c.pre, path |-> path, ls0 |-> ls,
                   n |-> c.n, len0 |-> c.len0, fresh |-> c.fresh,
                   before |-> c.before, slot |-> s, during |-> c.during]
    /\ conversations' = r.conv
    /\ currentConversationId' = r.cur
    /\ prov' = r.prov

\* Storage.loadConversations, lines 32-34: the result of the save is not looked at
AfterMigration(l, saved) == RemoveItem(l)

\* Storage.loadConversations, line 28
NeedsMigration(fromB) == Len(fromB) = 0

\* Storage.loadConversations, lines 28-39, once backend B's content is known
AfterLoad(s, c, fromB, q, app) ==
    IF NeedsMigration(fromB)
    THEN LET r == LoadFromLocalStorage(ls)
             c2 == [c EXCEPT !.stage = "idbSave", !.list = r.ret, !.a = ls,
                             !.pre = idb]
         IN
         IF Len(r.ret) > 0
         THEN IF initPromise = "resolved"
              THEN \* line 32: the save's transaction is created
                   /\ ls' = r.ls
                   /\ txQueue' = Enqueue(q, SaveTransactions(s, r.ret))
                   /\ calls' = [calls EXCEPT ![s] = [c2 EXCEPT !.pc = "tx"]]
                   /\ settled' = Unsettled
                   /\ conversations' = app.conv
                   /\ currentConversationId' = app.cur
                   /\ prov' = app.prov
              ELSE \* init() rejects again: the save resolves to false
                   /\ ls' = AfterMigration(r.ls, FALSE)
                   /\ txQueue' = q
                   /\ Settle(s, c2, "fulfilled", FALSE, r.ret, "mig", app)
         ELSE /\ ls' = r.ls
              /\ txQueue' = q
              /\ Settle(s, c2, "fulfilled", FALSE, fromB,
                        IF ls.kind \in {"corrupt", "badshape"} THEN "healed" ELSE "empty",
                        app)
    ELSE /\ ls' = ls
         /\ txQueue' = q
         /\ Settle(s, c, "fulfilled", FALSE, fromB, "B", app)

\* what the awaiting code does with the result of the IndexedDB operation:
\* st is "true", "false", "rejected", "value" or "done"; q is the transaction queue
Continue(s, c, st, list, q, app) ==
    IF c.stage = "idbSave"
    THEN IF c.op \in {"load", "appInit"}
         THEN IF st = "rejected"
              THEN ls' = ls /\ txQueue' = q
                   /\ Settle(s, c, "rejected", FALSE, <<>>, "mig", app)
              ELSE /\ ls' = AfterMigration(ls, st = "true")
                   /\ txQueue' = q
                   /\ Settle(s, c, "fulfilled", st = "true", c.list, "mig", app)
         ELSE /\ ls' = ls
              /\ txQueue' = q
              /\ Settle(s, c, IF st = "rejected" THEN "rejected" ELSE "fulfilled",
                        st = "true", c.list, "-", app)
    ELSE IF c.stage = "idbLoad"
    THEN IF c.op = "size"
         THEN ls' = ls /\ txQueue' = q
              /\ Settle(s, c, "fulfilled", FALSE, list, "-", app)
         ELSE AfterLoad(s, c, list, q, app)
    ELSE \* Storage.clearConversations, lines 78-80
         IF st = "rejected"
         THEN ls' = ls /\ txQueue' = q
              /\ Settle(s, c, "rejected", FALSE, <<>>, "-", app)
         ELSE ls' = RemoveItem(ls) /\ txQueue' = q
              /\ Settle(s, c, "fulfilled", FALSE, <<>>, "-", app)

\* the awaited init() rejects inside the try block: what the catch block yields
InitFailedResult(stage) ==
    IF stage = "idbSave" THEN "false" ELSE IF stage = "idbLoad" THEN "value" ELSE "done"

\* a transaction error or abort. saveConversations and clearConversations return
\* the promise from the try block without await, so its rejection passes the
\* catch block by; loadConversations awaits getAll() inside the try block, so
\* the catch block yields []
AbortResult(stage) == IF stage = "idbLoad" THEN "value" ELSE "rejected"

\* the call reaches the point after `await this.init()` with init settled
Proceed(s, c, q, app) ==
    IF initPromise = "rejected"
    THEN Continue(s, c, InitFailedResult(c.stage), <<>>, q, app)
    ELSE /\ txQueue' = Enqueue(q, Transactions(s, c.stage, c.list))
         /\ calls' = [calls EXCEPT ![s] = [c EXCEPT !.pc = "tx"]]
         /\ ls' = ls
         /\ settled' = Unsettled
         /\ conversations' = app.conv
         /\ currentConversationId' = app.cur
         /\ prov' = app.prov

\* an async function is called: it runs up to its first await that has to wait
Enter(s, c, app) ==
    IF initPromise \in {"null", "pending"}
    THEN /\ initPromise' = InitCalled(initPromise)
         /\ calls' = [calls EXCEPT ![s] = c]
         /\ ls' = ls
         /\ txQueue' = txQueue
         /\ settled' = Unsettled
         /\ conversations' = app.conv
         /\ currentConversationId' = app.cur
         /\ prov' = app.prov
    ELSE /\ initPromise' = initPromise
         /\ Proceed(s, c, txQueue, app)

----------------------------------------------------------------------------
(* Initial states: a fresh page over whatever earlier sessions left stored *)

\* no parser function is running
NoRaw == [kind |-> "none"]
NoWalk == [pc |-> "idle"]
NoResult == [op |-> "none", kind |-> "none", value |-> "-"]
ParserIdle == raw = NoRaw /\ walk = NoWalk /\ result = NoResult

BaseInit ==
    /\ ParserIdle
    /\ conversations = <<>>
    /\ currentConversationId = NoId
    /\ appPhase = "new"
    /\ ls \in LsValues
    /\ idb \in Stores
    /\ initPromise = "null"
    /\ txQueue = <<>>
    /\ calls = [s \in Slots |-> Idle]
    /\ settled = Unsettled
    /\ added = NotAdded

\* the facade on its own: nothing is loaded, provenance plays no part
StorageInit == BaseInit /\ prov = [c \in Conv |-> "-"]

----------------------------------------------------------------------------
(* IndexedDB steps *)

\* request.onsuccess / request.onerror of indexedDB.open
OpenDone(ok) ==
    /\ UNCHANGED parseVars
    /\ initPromise = "pending"
    /\ initPromise' = IF ok THEN "resolved" ELSE "rejected"
    /\ settled' = Unsettled
    /\ added' = NotAdded
    /\ UNCHANGED <<conversations, currentConversationId, appPhase, prov,
                   ls, idb, txQueue, calls>>

\* the code after `await this.init()`, for the calls that waited, oldest first
AwaitInit(s) ==
    /\ UNCHANGED parseVars
    /\ initPromise \in {"resolved", "rejected"}
    /\ calls[s].pc = "init"
    /\ \A t \in Slots : t < s => calls[t].pc # "init"
    /\ Proceed(s, calls[s], txQueue, CurrentApp)
    /\ added' = NotAdded
    /\ UNCHANGED <<appPhase, idb, initPromise>>

\* transaction.oncomplete of the oldest transaction: its writes become the
\* store's content, and the awaiting call goes on
TxCommit ==
    /\ UNCHANGED parseVars
    /\ ~Draining
    /\ txQueue # <<>>
    /\ LET tx == Head(txQueue)
           r == RunRequests(idb, tx.reqs)
           c == IF tx.first THEN [calls[tx.call] EXCEPT !.pre = idb] ELSE calls[tx.call]
       IN /\ r.ok
          /\ idb' = r.buf
          /\ IF tx.final
             THEN Continue(tx.call, c,
                           IF tx.kind = "save" THEN "true"
                           ELSE IF tx.kind = "load" THEN "value" ELSE "done",
                           SortById(idb), Tail(txQueue), CurrentApp)
             ELSE /\ calls' = [calls EXCEPT ![tx.call] = c]
                  /\ txQueue' = Tail(txQueue)
                  /\ settled' = Unsettled
                  /\ UNCHANGED <<ls, conversations, currentConversationId, prov>>
    /\ added' = NotAdded
    /\ UNCHANGED <<appPhase, initPromise>>

\* transaction.onerror / onabort, or getAll()'s onerror, of the oldest
\* transaction: a request failed (add() of a key that is present, a read error)
\* or the commit did (quota); nothing is written
TxAbort ==
    /\ UNCHANGED parseVars
    /\ ~Draining
    /\ txQueue # <<>>
    /\ LET tx == Head(txQueue)
           c == IF tx.first THEN [calls[tx.call] EXCEPT !.pre = idb] ELSE calls[tx.call]
           Other(t) == t.call # tx.call
       IN Continue(tx.call, c, AbortResult(c.stage), <<>>,
                   SelectSeq(Tail(txQueue), Other), CurrentApp)
    /\ added' = NotAdded
    /\ UNCHANGED <<appPhase, idb, initPromise>>

----------------------------------------------------------------------------
(* The storage facade, called by a caller that awaits each call *)

StartCall(s, op, stage, list) ==
    /\ UNCHANGED parseVars
    /\ ~Draining
    /\ NoCallInFlight
    /\ Free(s)
    /\ Enter(s, NewCall(op, stage, list), CurrentApp)
    /\ added' = NotAdded
    /\ UNCHANGED <<appPhase, idb>>

\* Storage.saveConversations(list)
CallSave(s, list) == StartCall(s, "save", "idbSave", list)
\* Storage.loadConversations()
CallLoad(s) == StartCall(s, "load", "idbLoad", <<>>)
\* Storage.clearConversations()
CallClear(s) == StartCall(s, "clear", "idbClear", <<>>)
\* Storage.getStorageSize()
CallSize(s) == StartCall(s, "size", "idbLoad", <<>>)

\* something outside the facade (an older build, another tab) sets backend A's key
ExternalWriteA(v) ==
    /\ UNCHANGED parseVars
    /\ ~Draining
    /\ v # ls
    /\ v.kind # "none"
    /\ ls' = v
    /\ settled' = Unsettled
    /\ added' = NotAdded
    /\ UNCHANGED <<conversations, currentConversationId, appPhase, prov,
                   idb, initPromise, txQueue, calls>>

StorageNext ==
    \/ \E s \in Slots, list \in Lists : CallSave(s, list)
    \/ \E s \in Slots : CallLoad(s)
    \/ \E s \in Slots : CallClear(s)
    \/ \E s \in Slots : CallSize(s)
    \/ \E v \in LsValues : ExternalWriteA(v)
    \/ \E ok \in BOOLEAN : OpenDone(ok)
    \/ \E s \in Slots : AwaitInit(s)
    \/ TxCommit
    \/ TxAbort

StorageSpec == StorageInit /\ [][StorageNext]_vars

----------------------------------------------------------------------------
(* The application *)

AppInit ==
    /\ BaseInit
    /\ ls = NoKey
    /\ prov = [c \in Conv |-> IF c \in idb \cup ToSet(ls.data) THEN "file" ELSE "-"]

\* new App(): App.init registers the handlers and, without a ?url= parameter,
\* starts loading what is stored
AppStart(s, url) ==
    /\ UNCHANGED parseVars
    /\ appPhase = "new"
    /\ appPhase' = "ready"
    /\ Free(s)
    /\ IF url
       THEN UNCHANGED <<conversations, currentConversationId, prov,
                        ls, initPromise, txQueue, calls, settled>>
       ELSE Enter(s, NewCall("appInit", "idbLoad", <<>>), CurrentApp)
    /\ added' = NotAdded
    /\ idb' = idb

\* the conversations-loaded handler for a file: addConversations(batch), lines 26-41;
\* n is newConversations.length, the value line 40 returns once the save is over
ImportFile(s, batch) ==
    /\ UNCHANGED parseVars
    /\ appPhase = "ready"
    /\ ~Draining
    /\ Free(s)
    /\ LET merged == Merge(conversations, batch)
           n == NewCount(conversations, batch)
           fresh == SubSeq(merged, Len(conversations) + 1, Len(merged))
           app == [conv |-> merged, cur |-> currentConversationId,
                   prov |-> Mark(prov, fresh, "file")]
           c == [NewCall("handler", "idbSave", merged) EXCEPT
                    !.n = n, !.len0 = Len(conversations),
                    !.fresh = Cardinality(IdsOf(batch) \ IdsOf(conversations))]
       IN /\ Enter(s, c, app)
          /\ added' = [valid |-> TRUE, batch |-> batch, before |-> conversations,
                       n |-> n,
                       repeat |-> added.valid /\ added.batch = batch]
    /\ UNCHANGED <<appPhase, idb>>

\* AppState.replaceConversations(batch), lines 47-50
ReplaceConversations(batch) ==
    /\ conversations' = batch
    /\ currentConversationId' = Emitted(currentConversationId, batch)

\* the conversations-loaded handler for a URL, lines 144-147
ImportUrl(batch) ==
    /\ UNCHANGED parseVars
    /\ appPhase = "ready"
    /\ ~Draining
    /\ ReplaceConversations(batch)
    /\ prov' = Mark(prov, batch, "url")
    /\ added' = NotAdded
    /\ settled' = Unsettled
    /\ UNCHANGED <<appPhase, ls, idb, initPromise, txQueue, calls>>

Next ==
    \/ \E s \in Slots, url \in BOOLEAN : AppStart(s, url)
    \/ \E s \in Slots, batch \in Lists : ImportFile(s, batch)
    \/ \E batch \in Lists : ImportUrl(batch)
    \/ \E ok \in BOOLEAN : OpenDone(ok)
    \/ \E s \in Slots : AwaitInit(s)
    \/ TxCommit
    \/ TxAbort

Spec == AppInit /\ [][Next]_vars

----------------------------------------------------------------------------
(* AppState on its own: merges that do not persist, and replacements *)

\* the page after App.init with a ?url= parameter: nothing loaded, nothing stored;
\* provenance plays no part
StateInit ==
    /\ ParserIdle
    /\ conversations = <<>>
    /\ currentConversationId = NoId
    /\ appPhase = "ready"
    /\ ls = NoKey
    /\ idb = {}
    /\ initPromise = "null"
    /\ txQueue = <<>>
    /\ calls = [s \in Slots |-> Idle]
    /\ settled = Unsettled
    /\ added = NotAdded
    /\ prov = [c \in Conv |-> "-"]

\* AppState.addConversations(batch, false), lines 26-41: no call of the storage
AddConversations(batch) ==
    /\ UNCHANGED parseVars
    /\ LET merged == Merge(conversations, batch)
       IN /\ conversations' = merged
          /\ currentConversationId' = Emitted(currentConversationId, merged)
          /\ added' = [valid |-> TRUE, batch |-> batch, before |-> conversations,
                       n |-> NewCount(conversations, batch),
                       repeat |-> added.valid /\ added.batch = batch]
    /\ settled' = Unsettled
    /\ UNCHANGED <<appPhase, prov, ls, idb, initPromise, txQueue, calls>>

\* AppState.replaceConversations(batch), lines 47-50
Replace(batch) ==
    /\ UNCHANGED parseVars
    /\ ReplaceConversations(batch)
    /\ added' = NotAdded
    /\ settled' = Unsettled
    /\ UNCHANGED <<appPhase, prov, ls, idb, initPromise, txQueue, calls>>

\* a click on an item of the sidebar: sidebar.onSelect -> selectConversation(id),
\* lines 192-194 and 56-59; the items are the conversations last rendered
SelectConversation(id) ==
    /\ UNCHANGED parseVars
    /\ id \in IdsOf(conversations)
    /\ currentConversationId' = id
    /\ added' = NotAdded
    /\ settled' = Unsettled
    /\ UNCHANGED <<conversations, appPhase, prov, ls, idb, initPromise, txQueue, calls>>

StateNext ==
    \/ \E batch \in Lists : AddConversations(batch)
    \/ \E batch \in Lists : Replace(batch)
    \/ \E id \in Ids : SelectConversation(id)

StateSpec == StateInit /\ [][StateNext]_vars

----------------------------------------------------------------------------
(* AppState.addConversations over conversations that have a content: what is
   loaded was read earlier, what comes in is a later export of the same ids *)

Loaded == "loaded"
Incoming == "incoming"

\* the loaded set when addConversations is called
LoadedLists == UNION {[1..n -> [id : Ids, content : {Loaded}]] : n \in 0..MaxBatch}
\* the conversations argument
IncomingLists == UNION {[1..n -> [id : Ids, content : {Incoming}]] : n \in 0..MaxBatch}

MergeInit ==
    /\ ParserIdle
    /\ conversations \in LoadedLists
    /\ currentConversationId = Emitted(NoId, conversations)
    /\ appPhase = "ready"
    /\ ls = NoKey
    /\ idb = {}
    /\ initPromise = "null"
    /\ txQueue = <<>>
    /\ calls = [s \in Slots |-> Idle]
    /\ settled = Unsettled
    /\ added = NotAdded
    /\ prov = [c \in Conv |-> "-"]

MergeNext == \E batch \in IncomingLists : AddConversations(batch)

MergeSpec == MergeInit /\ [][MergeNext]_vars

----------------------------------------------------------------------------
(* The parsers (js/parsers.js): format detection *)

MaxItems == 2

\* nothing is loaded, nothing is stored, no call is in flight
AppIdle ==
    /\ conversations = <<>>
    /\ currentConversationId = NoId
    /\ appPhase = "new"
    /\ ls = NoKey
    /\ idb = {}
    /\ initPromise = "null"
    /\ txQueue = <<>>
    /\ calls = [s \in Slots |-> Idle]
    /\ settled = Unsettled
    /\ added = NotAdded
    /\ prov = [c \in Conv |-> "-"]

appVars == <<conversations, currentConversationId, appPhase, ls, idb, initPromise,
             txQueue, calls, settled, added, prov>>

\* An element of the input, by what a signature test can see of it.  A flag says
\* that the field is there and truthy.  normalized: id, messages, format, created
\* and updated are all there (an exported conversation); zai: chat.history.messages
\* and chat.history.currentId are there.  isObject is FALSE for null, whose
\* properties cannot be read.
NullElem ==
    [isObject |-> FALSE, normalized |-> FALSE, mapping |-> FALSE, current_node |-> FALSE,
     chat_messages |-> FALSE, uuid |-> FALSE, zai |-> FALSE]
Elems ==
    [isObject : {TRUE}, normalized : BOOLEAN, mapping : BOOLEAN, current_node : BOOLEAN,
     chat_messages : BOOLEAN, uuid : BOOLEAN, zai : BOOLEAN] \cup {NullElem}

\* the parsed JSON: an array of elements, or a value that is no array (one
\* conversation object that is not wrapped in an array)
DetectInputs ==
    {[kind |-> "array", items |-> l] : l \in UNION {[1..n -> Elems] : n \in 0..MaxItems}}
    \cup {[kind |-> "object", items |-> <<e>>] : e \in Elems}

Returned(op, v) == [op |-> op, kind |-> "returned", value |-> v]
Threw(op, msg) == [op |-> op, kind |-> "threw", value |-> msg]

EmptyInputMsg == "Invalid conversation format: expected non-empty array"
UnknownFormatMsg == "Unknown conversation format"

\* detectFormat with one message for every failure
DetectFormatOneError(data) ==
    IF data.kind # "array" \/ Len(data.items) = 0
    THEN Threw("detectFormat", UnknownFormatMsg)
    ELSE LET first == data.items[1] IN
         IF ~first.isObject THEN Threw("detectFormat", "TypeError")
         ELSE IF first.mapping /\ first.current_node THEN Returned("detectFormat", "openai")
         ELSE IF first.chat_messages /\ first.uuid THEN Returned("detectFormat", "claude")
         ELSE Threw("detectFormat", UnknownFormatMsg)
\* detectFormat, lines 10-28
DetectFormat(data) ==
    IF data.kind # "array" \/ Len(data.items) = 0
    THEN Threw("detectFormat", EmptyInputMsg)
    ELSE LET first == data.items[1] IN
         IF ~first.isObject THEN Threw("detectFormat", "TypeError")
         ELSE IF first.mapping /\ first.current_node THEN Returned("detectFormat", "openai")
         ELSE IF first.chat_messages /\ first.uuid THEN Returned("detectFormat", "claude")
         ELSE Threw("detectFormat", UnknownFormatMsg)

\* a call of detectFormat(raw)
Detect ==
    /\ raw.kind \in {"array", "object"}
    /\ result = NoResult
    /\ result' = DetectFormat(raw)
    /\ UNCHANGED <<raw, walk>>
    /\ UNCHANGED appVars

DetectInit == AppIdle /\ raw \in DetectInputs /\ walk = NoWalk /\ result = NoResult

DetectNext == Detect

DetectSpec == DetectInit /\ [][DetectNext]_vars

----------------------------------------------------------------------------
(* Claims about format detection, checked under DetectSpec *)

\* data[0]
FirstOf(data) == data.items[1]

\* C11. Detection priority: an input whose first element matches the re-import
\* signature and also a tree-format signature (mapping with a current pointer)
\* is classified as re-import, not as the tree format.
C11_ReimportFirst ==
    (result.op = "detectFormat" /\ raw.kind = "array" /\ Len(raw.items) > 0
     /\ FirstOf(raw).normalized /\ FirstOf(raw).mapping /\ FirstOf(raw).current_node)
        => result = Returned("detectFormat", "normalized")

\* an exported conversation that also has mapping and current_node was
\* classified as the tree format
C11_ClassifiedAsTree ==
    /\ raw.kind = "array" /\ Len(raw.items) > 0
    /\ FirstOf(raw).normalized /\ FirstOf(raw).mapping /\ FirstOf(raw).current_node
    /\ result = Returned("detectFormat", "openai")

C13_AllFormatsRecognized ==
    (result.op = "detectFormat" /\ raw.kind = "array" /\ Len(raw.items) > 0)
        => LET f == FirstOf(raw) IN
           result = IF f.normalized THEN Returned("detectFormat", "normalized")
                    ELSE IF f.mapping /\ f.current_node THEN Returned("detectFormat", "openai")
                    ELSE IF f.chat_messages /\ f.uuid THEN Returned("detectFormat", "claude")
                    ELSE IF f.zai THEN Returned("detectFormat", "zai")
                    ELSE Threw("detectFormat", UnknownFormatMsg)

\* an array whose first element has the tree C signature only was rejected as
\* unrecognized
C13_TreeCRejected ==
    /\ raw.kind = "array" /\ Len(raw.items) > 0
    /\ FirstOf(raw).zai /\ ~FirstOf(raw).normalized
    /\ ~FirstOf(raw).mapping /\ ~FirstOf(raw).chat_messages
    /\ result = Threw("detectFormat", UnknownFormatMsg)

----------------------------------------------------------------------------
(* parseOpenAI (parsers.js 36-77): the walk from current_node to the root *)

MaxNodes == 3
\* iterations of the while loop that are followed; a walk over parent links
\* that form no cycle needs at most MaxNodes of them
MaxSteps == MaxNodes + 2

NodeIds == 1..MaxNodes
\* null / undefined / '': a node id on which while (nodeId) ends
NoNode == 0

\* a string is the sequence of its characters
EmptyString == <<>>
Text == <<"x">>
NewLine == <<"\n">>

\* message.content.parts
PartsValues ==
    {<<>>, <<EmptyString>>, <<Text>>, <<EmptyString, Text>>, <<Text, Text>>}

RECURSIVE Join(_)
\* parts.join('\n')
Join(parts) ==
    IF Len(parts) = 0 THEN EmptyString
    ELSE IF Len(parts) = 1 THEN parts[1]
    ELSE parts[1] \o NewLine \o Join(Tail(parts))

\* a key of conv.mapping that the walk has not read yet
Unread == [read |-> FALSE]
\* conv.mapping[nodeId] is undefined
NoEntry == [read |-> TRUE, present |-> FALSE]
\* conv.mapping[nodeId]: parent, message (hasMessage is FALSE for message:
\* null), message.metadata.is_visually_hidden_from_conversation and
\* message.content.parts
NodeEntries ==
    {[read |-> TRUE, present |-> TRUE, parent |-> p, hasMessage |-> FALSE,
      hidden |-> FALSE, parts |-> <<>>] : p \in {NoNode} \cup NodeIds}
    \cup {[read |-> TRUE, present |-> TRUE, parent |-> p, hasMessage |-> TRUE,
           hidden |-> TRUE, parts |-> <<Text>>] : p \in {NoNode} \cup NodeIds}
    \cup {[read |-> TRUE, present |-> TRUE, parent |-> p, hasMessage |-> TRUE,
           hidden |-> FALSE, parts |-> ps] : p \in {NoNode} \cup NodeIds, ps \in PartsValues}

\* one conversation of the input: hasMapping is FALSE when conv.mapping is
\* undefined; the entries of the mapping are drawn when the walk reads them
TreeInputs ==
    {[kind |-> "tree", hasMapping |-> h, current_node |-> c,
      mapping |-> [n \in NodeIds |-> Unread]] : h \in BOOLEAN, c \in {NoNode} \cup NodeIds}

\* const hasContent = node.message.content?.parts?.[0]
HasContent(parts) == Len(parts) > 0 /\ parts[1] # EmptyString

\* the test of lines 47-51
Eligible(node) == node.hasMessage /\ ~node.hidden /\ HasContent(node.parts)

\* the normalized message of lines 52-61, by the node it comes from
Message(id, node) == [id |-> id, content |-> Join(node.parts)]

\* messages.push in place of messages.unshift
CollectPush(messages, m) == Append(messages, m)
\* messages.unshift(m), line 52
Collect(messages, m) == <<m>> \o messages

\* the walk ends at a hidden node
NextNodeStopAtHidden(node) ==
    IF node.hasMessage /\ node.hidden THEN NoNode ELSE node.parent
\* nodeId = node.parent, line 65
NextNode(node) == node.parent

\* a missing node is an error
MissingNodeThrows(w) == [w EXCEPT !.pc = "threw", !.missing = TRUE]
\* if (!node) break, line 44
MissingNode(w) == [w EXCEPT !.pc = "exit", !.missing = TRUE]

\* one iteration of the loop body, lines 43-65, on the entry that was read
Iterate(w, node) ==
    IF ~node.present THEN MissingNode(w)
    ELSE [w EXCEPT !.messages = IF Eligible(node)
                                 THEN Collect(w.messages, Message(w.nodeId, node))
                                 ELSE w.messages,
                   !.path = Append(w.path, w.nodeId),
                   !.nodeId = NextNode(node),
                   !.steps = w.steps + 1]

\* const messages = []; let nodeId = conv.current_node (lines 38-39)
ParseOpenAIStart ==
    /\ raw.kind = "tree"
    /\ walk = NoWalk
    /\ walk' = [pc |-> "loop", nodeId |-> raw.current_node, messages |-> <<>>,
                path |-> <<>>, steps |-> 0, missing |-> FALSE]
    /\ UNCHANGED <<raw, result>>
    /\ UNCHANGED appVars

\* while (nodeId) { const node = conv.mapping[nodeId]; ... }: one iteration.
\* Reading a property of an undefined conv.mapping throws a TypeError.
WalkStep ==
    /\ walk.pc = "loop"
    /\ walk.nodeId # NoNode
    /\ walk.steps < MaxSteps
    /\ IF ~raw.hasMapping
       THEN /\ walk' = [walk EXCEPT !.pc = "threw"]
            /\ raw' = raw
       ELSE /\ \E node \in NodeEntries \cup {NoEntry} :
                    /\ raw.mapping[walk.nodeId] \in {Unread, node}
                    /\ raw' = [raw EXCEPT !.mapping[walk.nodeId] = node]
                    /\ walk' = Iterate(walk, node)
    /\ UNCHANGED result
    /\ UNCHANGED appVars

\* the loop condition is false: nodeId is null, undefined or ''
WalkExit ==
    /\ walk.pc = "loop"
    /\ walk.nodeId = NoNode
    /\ walk' = [walk EXCEPT !.pc = "exit"]
    /\ UNCHANGED <<raw, result>>
    /\ UNCHANGED appVars

\* return { id, title, created, updated, format: 'openai', messages }
ParseOpenAIReturn ==
    /\ walk.pc = "exit"
    /\ result = NoResult
    /\ walk' = [walk EXCEPT !.pc = "done"]
    /\ result' = Returned("parseOpenAI", walk.messages)
    /\ UNCHANGED raw
    /\ UNCHANGED appVars

\* the TypeError leaves data.map and parseOpenAI
ParseOpenAIThrow ==
    /\ walk.pc = "threw"
    /\ result = NoResult
    /\ walk' = [walk EXCEPT !.pc = "done"]
    /\ result' = Threw("parseOpenAI", "TypeError")
    /\ UNCHANGED raw
    /\ UNCHANGED appVars

TreeInit == AppIdle /\ raw \in TreeInputs /\ walk = NoWalk /\ result = NoResult

TreeNext ==
    \/ ParseOpenAIStart
    \/ WalkStep
    \/ WalkExit
    \/ ParseOpenAIReturn
    \/ ParseOpenAIThrow

TreeSpec == TreeInit /\ [][TreeNext]_vars

----------------------------------------------------------------------------
(* Claims about the tree normalizer, checked under TreeSpec *)

\* parseOpenAI returned for the conversation
WalkReturned == result.op = "parseOpenAI" /\ result.kind = "returned"

\* the entry of a node the walk has read
EntryOf(n) == raw.mapping[n]

\* the ids of the nodes the returned messages come from, in output order
OutputIds == [i \in 1..Len(result.value) |-> result.value[i].id]

RECURSIVE Chronological(_)
\* the messages of the eligible nodes of a current-to-root path, root first
Chronological(path) ==
    IF Len(path) = 0 THEN <<>>
    ELSE Chronological(Tail(path))
         \o (IF Eligible(EntryOf(Head(path)))
             THEN <<Message(Head(path), EntryOf(Head(path)))>> ELSE <<>>)

\* C14. Tree order: for a mapping root -> a -> b with the current pointer at b,
\* where the three nodes carry messages the normalizer takes, the output is
\* [root, a, b], whichever of the mapping's keys the three nodes are.
C14_TreeOrder ==
    (/\ WalkReturned
     /\ Len(walk.path) = 3
     /\ Cardinality(ToSet(walk.path)) = 3
     /\ \A i \in 1..3 : Eligible(EntryOf(walk.path[i]))
     /\ EntryOf(walk.path[3]).parent = NoNode)
        => OutputIds = <<walk.path[3], walk.path[2], walk.path[1]>>

\* the walk b, a, root over three nodes with messages has returned, with the
\* root under a larger key than b
C14_Witness ==
    /\ WalkReturned
    /\ Len(walk.path) = 3
    /\ raw.current_node = walk.path[1]
    /\ walk.path[3] > walk.path[1]
    /\ \A i \in 1..3 : Eligible(EntryOf(walk.path[i]))
    /\ EntryOf(walk.path[3]).parent = NoNode
    /\ Len(result.value) = 3

\* C15. Hidden-node skip: a hidden node on the path is not in the output, the
\* walk goes on to its parent (the next node read is the parent, unless the
\* parent is null or no key of the mapping), and every ancestor of it on the
\* path that passes the normalizer's test is in the output.
C15_HiddenSkipped ==
    WalkReturned
        => \A i \in 1..Len(walk.path) :
              (EntryOf(walk.path[i]).hasMessage /\ EntryOf(walk.path[i]).hidden)
                  => /\ \A k \in 1..Len(OutputIds) : OutputIds[k] # walk.path[i]
                     /\ \/ EntryOf(walk.path[i]).parent = NoNode
                        \/ i < Len(walk.path) /\ walk.path[i+1] = EntryOf(walk.path[i]).parent
                        \/ i = Len(walk.path) /\ walk.missing
                     /\ \A j \in (i+1)..Len(walk.path) :
                           Eligible(EntryOf(walk.path[j]))
                               => \E k \in 1..Len(OutputIds) : OutputIds[k] = walk.path[j]

\* a hidden node between two nodes with messages: the output holds both
C15_Witness ==
    /\ WalkReturned
    /\ Len(walk.path) = 3
    /\ Eligible(EntryOf(walk.path[1]))
    /\ EntryOf(walk.path[2]).hasMessage /\ EntryOf(walk.path[2]).hidden
    /\ Eligible(EntryOf(walk.path[3]))
    /\ OutputIds = <<walk.path[3], walk.path[1]>>

C17_NoNodeTwice ==
    walk.pc # "idle"
        => /\ \A i, j \in 1..Len(walk.path) : i # j => walk.path[i] # walk.path[j]
           /\ \A i, j \in 1..Len(walk.messages) :
                 i # j => walk.messages[i].id # walk.messages[j].id

\* a node that is its own parent was collected twice and the loop goes on
C17_CycleCollectedTwice ==
    /\ walk.pc = "loop"
    /\ walk.nodeId # NoNode
    /\ Len(walk.messages) >= 2
    /\ walk.messages[1].id = walk.messages[2].id
    /\ EntryOf(walk.nodeId).parent = walk.nodeId

\* the joined text of the node is not empty
NonEmptyContent(node) == Join(node.parts) # EmptyString

\* C18. Eligibility: a node of the path is in the output if and only if it
\* carries a message, is not hidden and its joined content is not empty; a node
\* with several parts is judged on all of them.
C18_Eligibility ==
    WalkReturned
        => \A i \in 1..Len(walk.path) :
              (\E k \in 1..Len(OutputIds) : OutputIds[k] = walk.path[i])
                  <=> LET node == EntryOf(walk.path[i]) IN
                      node.hasMessage /\ ~node.hidden /\ NonEmptyContent(node)

\* a visible message whose parts are '' and a text was left out
C18_MultiPartDropped ==
    /\ WalkReturned
    /\ Len(walk.path) = 1
    /\ EntryOf(walk.path[1]).hasMessage
    /\ ~EntryOf(walk.path[1]).hidden
    /\ EntryOf(walk.path[1]).parts = <<EmptyString, Text>>
    /\ result.value = <<>>

----------------------------------------------------------------------------
(* parseClaude (parsers.js 85-111): the linear normalizer *)

MaxMsgs == 2

Senders == {"human", "assistant", "system"}

\* an element of msg.content
Blocks ==
    {[type |-> "text", text |-> Text], [type |-> "text", text |-> EmptyString],
     [type |-> "tool_use", text |-> EmptyString]}

\* msg.content is undefined: the message has its text in msg.text only, as in
\* the export structure of docs/formats.md 85-105
NoContent == [defined |-> FALSE, blocks |-> <<>>]

\* msg.content
ContentValues ==
    {NoContent}
    \cup {[defined |-> TRUE, blocks |-> bs] : bs \in UNION {[1..n -> Blocks] : n \in 0..1}}
    \cup {[defined |-> TRUE, blocks |-> <<[type |-> "text", text |-> Text],
                                          [type |-> "text", text |-> Text]>>]}

\* an element of conv.chat_messages
ClaudeMessages == [uuid : 1..MaxMsgs, sender : Senders, content : ContentValues]

\* one conversation of the input
LinearInputs ==
    {[kind |-> "linear", chat_messages |-> ms] :
        ms \in UNION {[1..n -> ClaudeMessages] : n \in 0..MaxMsgs}}

\* msg.sender === 'human' ? 'user' : 'assistant', line 89
ClaudeRole(sender) == IF sender = "human" THEN "user" ELSE "assistant"

\* the text parts of a message's content, in order
TextsOf(blocks) ==
    LET textAt == {i \in 1..Len(blocks) : blocks[i].type = "text"}
        RECURSIVE Pick(_)
        Pick(i) == IF i > Len(blocks) THEN <<>>
                   ELSE (IF i \in textAt THEN <<blocks[i].text>> ELSE <<>>) \o Pick(i + 1)
    IN Pick(1)

\* the callback of conv.chat_messages.map, lines 87-99
ClaudeMessage(msg) ==
    [id |-> msg.uuid, role |-> ClaudeRole(msg.sender),
     content |-> Join(TextsOf(msg.content.blocks))]

\* parseClaude for one conversation: msg.content.filter on an undefined
\* content throws a TypeError, which leaves both maps
ParseClaudeConv(conv) ==
    IF \E i \in 1..Len(conv.chat_messages) : ~conv.chat_messages[i].content.defined
    THEN Threw("parseClaude", "TypeError")
    ELSE Returned("parseClaude",
                  [i \in 1..Len(conv.chat_messages) |-> ClaudeMessage(conv.chat_messages[i])])

\* a call of parseClaude
ParseClaude ==
    /\ raw.kind = "linear"
    /\ result = NoResult
    /\ result' = ParseClaudeConv(raw)
    /\ UNCHANGED <<raw, walk>>
    /\ UNCHANGED appVars

LinearInit == AppIdle /\ raw \in LinearInputs /\ walk = NoWalk /\ result = NoResult

LinearNext == ParseClaude

LinearSpec == LinearInit /\ [][LinearNext]_vars

----------------------------------------------------------------------------
(* Claims about the linear normalizer, checked under LinearSpec *)

CanonicalRoles == {"user", "assistant", "system"}

\* C19. Linear normalizer: for every input message array the output has one
\* message per input message in the same order, sender 'human' becomes role
\* 'user', sender 'assistant' becomes role 'assistant', and every output role
\* is one of user, assistant, system.
C19_LinearNormalizer ==
    result.op = "parseClaude"
        => /\ result.kind = "returned"
           /\ Len(result.value) = Len(raw.chat_messages)
           /\ \A i \in 1..Len(raw.chat_messages) :
                 /\ result.value[i].id = raw.chat_messages[i].uuid
                 /\ raw.chat_messages[i].sender = "human" => result.value[i].role = "user"
                 /\ raw.chat_messages[i].sender = "assistant"
                        => result.value[i].role = "assistant"
                 /\ result.value[i].role \in CanonicalRoles

\* the two messages of the documented export structure ({sender: 'human',
\* text}, {sender: 'assistant', text}, no content array) made parseClaude throw
C19_DocumentedInputThrows ==
    /\ raw.kind = "linear"
    /\ Len(raw.chat_messages) = 2
    /\ raw.chat_messages[1].sender = "human"
    /\ raw.chat_messages[2].sender = "assistant"
    /\ \A i \in 1..2 : raw.chat_messages[i].content = NoContent
    /\ result = Threw("parseClaude", "TypeError")

\* the part of C19 that holds: the same statement for inputs in which every
\* message has a content array
C19_WithContentArrays ==
    (result.op = "parseClaude"
     /\ \A i \in 1..Len(raw.chat_messages) : raw.chat_messages[i].content.defined)
        => /\ result.kind = "returned"
           /\ Len(result.value) = Len(raw.chat_messages)
           /\ \A i \in 1..Len(raw.chat_messages) :
                 /\ result.value[i].id = raw.chat_messages[i].uuid
                 /\ raw.chat_messages[i].sender = "human" => result.value[i].role = "user"
                 /\ raw.chat_messages[i].sender = "assistant"
                        => result.value[i].role = "assistant"
                 /\ result.value[i].role \in CanonicalRoles

----------------------------------------------------------------------------
(* Export and re-import: prepareForExport (export.js 12-30), JSON, then
   parseConversations (parsers.js 118-129) *)

MaxConvs == 2
\* the latest instant, in milliseconds
MaxTime == 1

\* new Date(NaN): what new Date(conv.create_time * 1000) is for an export
\* without create_time
InvalidDate == -1
Dates == 0..MaxTime \cup {InvalidDate}

\* a normalized message and a normalized conversation (parsers.js 52-61,
\* 68-75, 87-109); the tree normalizer sets no summary
NormalizedMessages == [id : {1}, role : {"user"}, timestamp : Dates]
NormalizedConvs ==
    {[id |-> i, format |-> f, summary |-> IF f = "openai" THEN "undefined" ELSE "s",
      created |-> c, messages |-> ms] :
        i \in 1..MaxConvs, f \in {"openai", "claude"}, c \in 0..MaxTime,
        ms \in UNION {[1..n -> NormalizedMessages] : n \in 0..1}}

NormalizedLists == UNION {[1..n -> NormalizedConvs] : n \in 0..MaxConvs}

\* Date.prototype.toISOString: the instant as text, to the millisecond
ToISOString(d) == <<"ISO-8601", d>>
\* new Date(text) of such a text
DateOfISO(t) == t[2]

\* the object prepareForExport builds for one conversation, after
\* JSON.stringify and JSON.parse: its keys are id, title, created, updated,
\* format, messages (and summary when defined), so of the fields a signature
\* test reads none is there
Exported(conv) ==
    [isObject |-> TRUE, normalized |-> TRUE, mapping |-> FALSE, current_node |-> FALSE,
     chat_messages |-> FALSE, uuid |-> FALSE, zai |-> FALSE,
     id |-> conv.id, format |-> conv.format, summary |-> conv.summary,
     created |-> ToISOString(conv.created),
     messages |-> [i \in 1..Len(conv.messages) |->
                      [id |-> conv.messages[i].id, role |-> conv.messages[i].role,
                       timestamp |-> ToISOString(conv.messages[i].timestamp)]]]

\* some timestamp of the list is an Invalid Date
HasInvalidDate(list) ==
    \E i \in 1..Len(list) : \E j \in 1..Len(list[i].messages) :
        list[i].messages[j].timestamp = InvalidDate

\* prepareForExport, then JSON.stringify and JSON.parse; toISOString of an
\* Invalid Date throws a RangeError
PrepareForExport(list) ==
    IF HasInvalidDate(list) THEN Threw("prepareForExport", "RangeError")
    ELSE Returned("prepareForExport",
                  [kind |-> "array", items |-> [i \in 1..Len(list) |-> Exported(list[i])]])

\* parseConversations: the error of detectFormat leaves the function; a
\* detected format is handed to its parser
ParseConversations(data) ==
    LET format == DetectFormat(data) IN
    IF format.kind = "threw" THEN Threw("parseConversations", format.value)
    ELSE Returned("parseConversations",
                  [parser |-> IF format.value = "openai" THEN "parseOpenAI" ELSE "parseClaude",
                   data |-> data.items])

\* exportConversations: the file's content
Export ==
    /\ raw.kind = "conversations"
    /\ walk = NoWalk
    /\ LET r == PrepareForExport(raw.list) IN
       IF r.kind = "threw"
       THEN /\ walk' = [pc |-> "failed"]
            /\ result' = r
       ELSE /\ walk' = [pc |-> "exported", json |-> r.value]
            /\ result' = result
    /\ UNCHANGED raw
    /\ UNCHANGED appVars

\* the exported file is loaded again
Reimport ==
    /\ walk.pc = "exported"
    /\ result = NoResult
    /\ result' = ParseConversations(walk.json)
    /\ UNCHANGED <<raw, walk>>
    /\ UNCHANGED appVars

RoundTripInit ==
    /\ AppIdle
    /\ raw \in {[kind |-> "conversations", list |-> l] : l \in NormalizedLists}
    /\ walk = NoWalk
    /\ result = NoResult

RoundTripNext == Export \/ Reimport

RoundTripSpec == RoundTripInit /\ [][RoundTripNext]_vars

----------------------------------------------------------------------------
(* Claims about export and re-import, checked under RoundTripSpec *)

\* C20. Export/import round trip: for every list C of normalized
\* conversations, the export of C succeeds and parsing it succeeds and yields
\* conversations equal to C.
C20_RoundTrip ==
    /\ result.op = "prepareForExport" => result.kind = "returned"
    /\ result.op = "parseConversations"
           => /\ result.kind = "returned"
              /\ result.value = raw.list

\* the export of one conversation with valid timestamps was rejected as an
\* unknown format
C20_ExportRejected ==
    /\ raw.kind = "conversations"
    /\ Len(raw.list) = 1
    /\ ~HasInvalidDate(raw.list)
    /\ walk.pc = "exported"
    /\ DateOfISO(walk.json.items[1].created) = raw.list[1].created
    /\ result = Threw("parseConversations", UnknownFormatMsg)

----------------------------------------------------------------------------
(* The conversation-level fields of parseOpenAI (parsers.js 68-75) and
   parseClaude (parsers.js 101-109) *)

\* the value of a text field that is absent
Undefined == "undefined"
\* create_time / update_time is absent
NoSeconds == -1
\* created_at / updated_at is absent
NoText == <<>>
\* message.content or content.parts is absent
NoParts == <<>>
DefaultTitle == "Untitled Conversation"

\* one conversation of an OpenAI export with one node on the current path.  A
\* field is its value or Undefined; create_time and update_time are seconds;
\* the message has metadata or not, and content.parts or no content
OpenAIConvs ==
    [format : {"openai"}, conversation_id : {Undefined, "cid"}, id : {Undefined, "id"},
     title : {Undefined, "t"}, create_time : {NoSeconds, 1}, update_time : {NoSeconds, 1},
     metadata : BOOLEAN, parts : {NoParts, <<Text>>}]

\* one conversation of a Claude export with one message; created_at and
\* updated_at are ISO texts; the message has a content array or not
ClaudeConvs ==
    [format : {"claude"}, uuid : {Undefined, "uuid"}, name : {Undefined, "t"},
     summary : {Undefined, "s"}, created_at : {NoText, ToISOString(1)},
     updated_at : {NoText, ToISOString(1)},
     attachments : BOOLEAN,
     content : {NoContent, [defined |-> TRUE, blocks |-> <<[type |-> "text", text |-> Text]>>]}]

\* new Date(seconds * 1000); undefined * 1000 is NaN
DateOfSeconds(s) == IF s = NoSeconds THEN InvalidDate ELSE s * 1000
\* new Date(text); new Date(undefined) is an Invalid Date
DateOfText(t) == IF t = NoText THEN InvalidDate ELSE DateOfISO(t)

\* a || b
OrElse(a, b) == IF a # Undefined THEN a ELSE b

\* the node of the conversation's one message, as the walk reads it
NodeOf(conv) ==
    [read |-> TRUE, present |-> TRUE, parent |-> NoNode, hasMessage |-> TRUE,
     hidden |-> FALSE, parts |-> conv.parts]

\* parseOpenAI for one conversation, lines 37-76
NormalizeOpenAIConv(conv) ==
    Returned("parseOpenAI",
             [id |-> OrElse(conv.conversation_id, conv.id),
              title |-> OrElse(conv.title, DefaultTitle),
              created |-> DateOfSeconds(conv.create_time),
              updated |-> DateOfSeconds(conv.update_time),
              format |-> "openai",
              summary |-> Undefined,
              messages |-> IF Eligible(NodeOf(conv))
                           THEN <<Message(1, NodeOf(conv))>> ELSE <<>>])

\* the conversation's one message, as parseClaude reads it
ClaudeMessageOf(conv) ==
    [uuid |-> 1, sender |-> "human",
     content |-> conv.content]

\* parseClaude for one conversation, lines 86-110
NormalizeClaudeConv(conv) ==
    LET ms == ParseClaudeConv([kind |-> "linear", chat_messages |-> <<ClaudeMessageOf(conv)>>])
    IN IF ms.kind = "threw" THEN ms
       ELSE Returned("parseClaude",
                     [id |-> conv.uuid,
                      title |-> OrElse(conv.name, DefaultTitle),
                      created |-> DateOfText(conv.created_at),
                      updated |-> DateOfText(conv.updated_at),
                      format |-> "claude",
                      summary |-> conv.summary,
                      messages |-> ms.value])

\* a call of parseOpenAI
NormalizeOpenAI ==
    /\ raw.format = "openai"
    /\ result = NoResult
    /\ result' = NormalizeOpenAIConv(raw)
    /\ UNCHANGED <<raw, walk>>
    /\ UNCHANGED appVars

\* a call of parseClaude
NormalizeClaude ==
    /\ raw.format = "claude"
    /\ result = NoResult
    /\ result' = NormalizeClaudeConv(raw)
    /\ UNCHANGED <<raw, walk>>
    /\ UNCHANGED appVars

NormalizeInit ==
    AppIdle /\ raw \in OpenAIConvs \cup ClaudeConvs /\ walk = NoWalk /\ result = NoResult

NormalizeNext == NormalizeOpenAI \/ NormalizeClaude

NormalizeSpec == NormalizeInit /\ [][NormalizeNext]_vars

----------------------------------------------------------------------------
(* Claims about the conversation-level fields, checked under NormalizeSpec *)

Normalized == result.op \in {"parseOpenAI", "parseClaude"}

\* the input has no conversation id
NoIdentity ==
    IF raw.format = "openai" THEN raw.conversation_id = Undefined /\ raw.id = Undefined
    ELSE raw.uuid = Undefined
\* the input has no timestamp at all
NoTimestamp ==
    IF raw.format = "openai"
    THEN raw.create_time = NoSeconds /\ raw.update_time = NoSeconds
    ELSE raw.created_at = NoText /\ raw.updated_at = NoText
\* no message of the input lacks its content
HasMessageContent ==
    IF raw.format = "openai" THEN raw.parts # NoParts ELSE raw.content # NoContent

\* C21. A normalizer fails with a malformed-conversation error when the
\* conversation has no id and no timestamp at all, and never returns a
\* conversation whose id is undefined or whose created and updated instants are
\* both invalid.
C21_MalformedRejected ==
    Normalized
        => /\ (NoIdentity /\ NoTimestamp)
                  => result = Threw(result.op, "MalformedConversationError")
           /\ result.kind = "returned"
                  => /\ result.value.id # Undefined
                     /\ ~(result.value.created = InvalidDate
                          /\ result.value.updated = InvalidDate)

\* a conversation without id and without timestamps was returned, with an
\* undefined id and two Invalid Dates
C21_ReturnedWithoutIdentity ==
    /\ Normalized /\ NoIdentity /\ NoTimestamp
    /\ result.kind = "returned"
    /\ result.value.id = Undefined
    /\ result.value.created = InvalidDate /\ result.value.updated = InvalidDate

\* C22. A normalizer does not fail because optional fields are missing: a
\* conversation with its id and timestamps but without title, summary, message
\* metadata, attachments or message content is normalized, with the title
\* 'Untitled Conversation' when absent and the message skipped or empty.
C22_OptionalFieldsDefaulted ==
    (Normalized /\ ~NoIdentity
     /\ (IF raw.format = "openai"
         THEN raw.create_time # NoSeconds /\ raw.update_time # NoSeconds
         ELSE raw.created_at # NoText /\ raw.updated_at # NoText))
        => /\ result.kind = "returned"
           /\ result.value.title =
                  (IF raw.format = "openai" THEN OrElse(raw.title, DefaultTitle)
                   ELSE OrElse(raw.name, DefaultTitle))
           /\ ~HasMessageContent
                  => \/ result.value.messages = <<>>
                     \/ /\ Len(result.value.messages) = 1
                        /\ result.value.messages[1].content = EmptyString

\* a Claude conversation with id and timestamps whose message has no content
\* array made parseClaude throw
C22_MissingContentThrows ==
    /\ raw.format = "claude"
    /\ raw.uuid # Undefined /\ raw.created_at # NoText /\ raw.updated_at # NoText
    /\ raw.content = NoContent
    /\ result = Threw("parseClaude", "TypeError")

\* the part of C22 that holds: the same statement for every conversation but a
\* Claude conversation with a message that has no content array
C22_ExceptClaudeContent ==
    (Normalized /\ ~NoIdentity /\ ~NoTimestamp
     /\ (raw.format = "claude" => raw.content # NoContent))
        => /\ result.kind = "returned"
           /\ result.value.title =
                  (IF raw.format = "openai" THEN OrElse(raw.title, DefaultTitle)
                   ELSE OrElse(raw.name, DefaultTitle))
           /\ ~HasMessageContent => result.value.messages = <<>>

----------------------------------------------------------------------------
(* Claims about the storage facade, checked under StorageSpec *)

\* C5. Migration on first load: when backend B is empty and backend A holds a
\* parsable collection, loadConversations() returns A's conversations, and
\* afterwards B holds exactly those conversations and A's key is erased.
C5_MigrationOnFirstLoad ==
    (settled.op = "load" /\ settled.a.kind = "blob" /\ settled.pre = {})
        => /\ settled.status = "fulfilled"
           /\ settled.list = settled.a.data
           /\ idb = ToSet(settled.a.data)
           /\ ls = NoKey

\* a load has returned backend A's conversations and erased A's key, and
\* backend B holds none of them
C5_ErasedWithoutCopy ==
    /\ settled.op = "load" /\ settled.status = "fulfilled"
    /\ settled.a.kind = "blob" /\ settled.a.data # <<>>
    /\ settled.list = settled.a.data
    /\ settled.pre = {} /\ idb = {}
    /\ settled.ls0 = settled.a /\ ls = NoKey

\* C6. Migration is one-shot: once backend B is non-empty, every later
\* loadConversations() leaves backend A and backend B unchanged and returns B's
\* content, even if backend A has been repopulated in the meantime.
C6_MigrationOneShot ==
    (settled.op = "load" /\ settled.pre # {})
        => /\ settled.status = "fulfilled"
           /\ settled.list = SortById(settled.pre)
           /\ idb = settled.pre
           /\ ls = settled.ls0

\* backend B is non-empty, and a load has returned backend A's conversations
\* and erased A's key
C6_MigratedAgain ==
    /\ settled.op = "load" /\ settled.status = "fulfilled"
    /\ settled.pre # {} /\ idb = settled.pre
    /\ settled.ls0.kind = "blob" /\ settled.ls0.data # <<>>
    /\ settled.list = settled.ls0.data
    /\ ls = NoKey

\* C26. Migration never loses data: whenever a loadConversations() that
\* attempted the migration has finished, also one whose write to backend B
\* failed or reported failure, each conversation that backend A held is still
\* in backend A or in backend B.
C26_MigrationKeepsData ==
    (/\ settled.op = "load" /\ settled.path = "mig"
     /\ settled.a.kind = "blob" /\ ls \in {NoKey, settled.a})
        => \A c \in ToSet(settled.a.data) :
               c \in idb \/ (ls.kind = "blob" /\ c \in ToSet(ls.data))

\* a migration has finished with the save reporting false: backend A's key is
\* erased and a conversation it held is not in backend B
C26_LostInMigration ==
    /\ settled.op = "load" /\ settled.path = "mig"
    /\ settled.status = "fulfilled" /\ ~settled.ok
    /\ settled.a.kind = "blob" /\ ls = NoKey
    /\ \E c \in ToSet(settled.a.data) : c \notin idb

\* C7. Migration is one-directional: no operation of the storage facade writes
\* data into backend A; the only change an operation makes to backend A is
\* erasing its key.  (Every step leaves backend A as it is or without its key,
\* unless the step is a write from outside the facade.)
C7_FacadeOnlyErasesA ==
    [][ls' = ls \/ ls' = NoKey \/ ExternalWriteA(ls')]_vars

C7_Witness ==
    /\ settled.op \in {"load", "clear"} /\ settled.status = "fulfilled"
    /\ settled.ls0.kind = "blob" /\ settled.ls0.data # <<>>
    /\ ls = NoKey

C9_SaveNeverRejects ==
    settled.op = "save" => settled.status = "fulfilled"

\* C10. Corruption self-healing: if what the load reads from backend A fails to
\* parse or has not the expected shape, the load erases the record, returns an
\* empty collection, propagates no error and does not write backend B.
C10_CorruptionHealed ==
    (settled.op = "load" /\ settled.a.kind \in {"corrupt", "badshape"})
        => /\ settled.status = "fulfilled"
           /\ settled.list = <<>>
           /\ ls = NoKey
           /\ idb = settled.pre
           /\ txQueue = <<>>

C10_Witness ==
    /\ settled.op = "load" /\ settled.a.kind \in {"corrupt", "badshape"}
    /\ settled.ls0 = settled.a /\ ls = NoKey

----------------------------------------------------------------------------
(* File imports on their own: conversations-loaded events on a page that
   found nothing stored when it started *)

ImportInit ==
    /\ ParserIdle
    /\ conversations = <<>>
    /\ currentConversationId = NoId
    /\ appPhase = "ready"
    /\ ls = NoKey
    /\ idb = {}
    /\ initPromise = "null"
    /\ txQueue = <<>>
    /\ calls = [s \in Slots |-> Idle]
    /\ settled = Unsettled
    /\ added = NotAdded
    /\ prov = [c \in Conv |-> "-"]

\* the calls of the scenario: a first addConversations call and a second one
TwoCalls == 2

\* the files of the scenario: exports, which hold each conversation once
ExportLists == {l \in Lists : UniqueIds(l)}

ImportNext ==
    \/ \E s \in 1..TwoCalls, batch \in ExportLists : ImportFile(s, batch)
    \/ \E ok \in BOOLEAN : OpenDone(ok)
    \/ \E s \in Slots : AwaitInit(s)
    \/ TxCommit
    \/ TxAbort

ImportSpec == ImportInit /\ [][ImportNext]_vars

----------------------------------------------------------------------------
(* Storage operations started before the database has opened: any of
   saveConversations, loadConversations, clearConversations and getStorageSize
   of the facade, called without waiting for one another *)

\* the list the saves are given
SavedList == <<AnyConv>>

\* an operation of the facade is called while init() has not settled
StartEarly(s, op, stage, list) ==
    /\ UNCHANGED parseVars
    /\ initPromise \in {"null", "pending"}
    /\ Free(s)
    /\ Enter(s, NewCall(op, stage, list), CurrentApp)
    /\ added' = NotAdded
    /\ UNCHANGED <<appPhase, idb>>

OpenInit ==
    /\ ImportInit
    /\ idb \in {{}, {AnyConv}}

OpenNext ==
    \/ \E s \in Slots : StartEarly(s, "save", "idbSave", SavedList)
    \/ \E s \in Slots : StartEarly(s, "load", "idbLoad", <<>>)
    \/ \E s \in Slots : StartEarly(s, "clear", "idbClear", <<>>)
    \/ \E s \in Slots : StartEarly(s, "size", "idbLoad", <<>>)
    \/ \E ok \in BOOLEAN : OpenDone(ok)
    \/ \E s \in Slots : AwaitInit(s)
    \/ TxCommit
    \/ TxAbort

OpenSpec == OpenInit /\ [][OpenNext]_vars

\* the calls that have not finished
InFlight == {s \in Slots : calls[s].op # "idle"}

\* C30. The database is opened at most once: whatever operations are started
\* before the database has opened, indexedDB.open is invoked once (by the call
\* that finds initPromise null, and never again once initPromise is set), all
\* of them wait for that open, and none creates a transaction before the open
\* has succeeded and this.db is set.  Checked under OpenSpec.
C30_OpenedOnce ==
    [][/\ initPromise' # initPromise
          => \/ initPromise = "null" /\ initPromise' = "pending"
             \/ initPromise = "pending" /\ initPromise' \in {"resolved", "rejected"}
       /\ (\E s \in Slots : calls[s].op = "idle" /\ calls'[s].op # "idle")
          => initPromise' # "null"
       /\ initPromise' \in {"null", "pending"}
          => /\ txQueue' = <<>>
             /\ \A s \in Slots : calls'[s].op # "idle" => calls'[s].pc = "init"
       /\ (\E s \in Slots : calls'[s].pc = "tx") => initPromise' = "resolved"]_vars

\* a save, a load and nothing else were waiting for the open, which succeeded:
\* both have created their transactions
C30_Witness ==
    /\ initPromise = "resolved"
    /\ Cardinality(InFlight) >= 2
    /\ \A s \in InFlight : calls[s].pc = "tx"
    /\ \E s, t \in InFlight : calls[s].op = "save" /\ calls[t].op = "load"
    /\ Len(txQueue) >= 2

----------------------------------------------------------------------------
(* Claims about file imports, checked under ImportSpec *)

\* call t was issued while the call now in slot s was in flight
IssuedAfter(t, s) == s \in calls[t].before

\* C23. Sequential saves keep their order: the transactions of persistent
\* addConversations calls wait in the order the calls were issued, a call
\* finishes before every call issued after it, and when the last call has
\* finished with its write applied, the store holds the collection that call
\* wrote, which is the loaded set with the conversations of every call.
C23_SavesInOrder ==
    /\ \A i, j \in 1..Len(txQueue) :
          i < j => IssuedAfter(txQueue[j].call, txQueue[i].call)
    /\ settled.op = "handler"
          => \A t \in settled.before :
                calls[t].op # "idle" => settled.slot \in calls[t].before
    /\ (settled.op = "handler" /\ settled.status = "fulfilled" /\ settled.ok
        /\ NoCallInFlight)
          => /\ idb = ToSet(settled.list)
             /\ settled.list = conversations

\* the second of two calls that were in flight together has finished last, and
\* the store holds what it wrote: more than the first call's conversations
C23_Witness ==
    /\ settled.op = "handler" /\ settled.status = "fulfilled" /\ settled.ok
    /\ settled.before # {}
    /\ NoCallInFlight
    /\ settled.len0 > 0
    /\ Len(settled.list) > settled.len0
    /\ idb = ToSet(conversations)

----------------------------------------------------------------------------
(* FileHandler.processFile (file-handler.js 88-138): from a dropped or selected
   file to the conversations-loaded event *)

\* first elements of a file's array, by signature: an OpenAI export, a Claude
\* export, a Z.ai export, an export of this application, an object with none
\* of the signature fields, and null
OpenAIElem == [NullElem EXCEPT !.isObject = TRUE, !.mapping = TRUE, !.current_node = TRUE]
ClaudeElem == [NullElem EXCEPT !.isObject = TRUE, !.chat_messages = TRUE, !.uuid = TRUE]
ZaiElem == [NullElem EXCEPT !.isObject = TRUE, !.zai = TRUE]
NormalizedElem == [NullElem EXCEPT !.isObject = TRUE, !.normalized = TRUE]
PlainElem == [NullElem EXCEPT !.isObject = TRUE]

\* what JSON.parse gives for the text of a file
FileData ==
    {[kind |-> "object", items |-> <<OpenAIElem>>], [kind |-> "array", items |-> <<>>]}
    \cup {[kind |-> "array", items |-> <<e>>] :
             e \in {OpenAIElem, ClaudeElem, ZaiElem, NormalizedElem, PlainElem, NullElem}}

\* the text of a file: valid is FALSE for text that JSON.parse rejects; throws
\* says that the parser of the detected format throws on the data (a Claude
\* message without content, an OpenAI conversation without mapping); convs is
\* what the parser returns otherwise, here for exports of one conversation
FileTexts ==
    {[valid |-> FALSE, data |-> [kind |-> "array", items |-> <<>>], throws |-> FALSE,
      convs |-> <<>>]}
    \cup {[valid |-> TRUE, data |-> d, throws |-> FALSE, convs |-> <<>>] :
             d \in FileData \ {[kind |-> "array", items |-> <<OpenAIElem>>]}}
    \cup {[valid |-> TRUE, data |-> [kind |-> "array", items |-> <<e>>], throws |-> TRUE,
           convs |-> <<>>] : e \in {OpenAIElem, ClaudeElem}}
    \cup {[valid |-> TRUE, data |-> [kind |-> "array", items |-> <<OpenAIElem>>],
           throws |-> FALSE, convs |-> <<c>>] : c \in Conv}

\* the text of an OpenAI export with the conversations l
GoodText(l) ==
    [valid |-> TRUE, data |-> [kind |-> "array", items |-> <<OpenAIElem>>],
     throws |-> FALSE, convs |-> l]

\* a file: the end of its name; for an archive, whether it holds an entry
\* conversations.json (entry is TRUE for other files), with text the text of
\* the file or of that entry.  A .json file has any text; an archive has a
\* text that fails or one export; a file of another kind has one export.
Files ==
    {[ext |-> ".json", entry |-> TRUE, text |-> t] : t \in FileTexts}
    \cup {[ext |-> ".zip", entry |-> TRUE, text |-> t] :
             t \in {u \in FileTexts : u.convs = <<>>} \cup {GoodText(<<AnyConv>>)}}
    \cup {[ext |-> x, entry |-> x = ".txt", text |-> GoodText(<<AnyConv>>)] :
             x \in {".zip", ".txt"}}

\* every file is read as JSON
HandlerForAnyName(ext) == "handleJSONFile"
\* processFile, lines 90-96: the handler for the file's name
HandlerFor(ext) ==
    IF ext = ".json" THEN "handleJSONFile"
    ELSE IF ext = ".zip" THEN "handleZipFile"
    ELSE "none"

\* JSON.parse(text) and parseConversations(data), lines 104-105 and 128-129
ParseText(text) ==
    IF ~text.valid THEN Threw("processFile", "SyntaxError")
    ELSE LET p == ParseConversations(text.data) IN
         IF p.kind = "threw" THEN Threw("processFile", p.value)
         ELSE IF text.throws THEN Threw("processFile", "TypeError")
         ELSE Returned("processFile", text.convs)

\* processFile up to the dispatch of the event: the conversations of the event,
\* or the error that is shown
ProcessFileResult(file) ==
    IF HandlerFor(file.ext) = "none"
    THEN Threw("processFile", "Unsupported file type. Please select a .json or .zip file.")
    ELSE IF HandlerFor(file.ext) = "handleZipFile" /\ ~file.entry
    THEN Threw("processFile", "conversations.json not found in ZIP file")
    ELSE ParseText(file.text)

\* processFile(file): either document.dispatchEvent(conversations-loaded), whose
\* handler calls addConversations, or showError.  A file that can be imported
\* is given when the import before it has finished; a file that fails is given
\* at any time.
ProcessFile(s, file) ==
    LET r == ProcessFileResult(file) IN
    /\ raw' = [kind |-> "file", file |-> file]
    /\ result' = r
    /\ walk' = walk
    /\ IF r.kind = "returned"
       THEN /\ appPhase = "ready"
            /\ ~Draining
            /\ NoCallInFlight
            /\ Free(s)
            /\ LET batch == r.value
                   merged == Merge(conversations, batch)
                   n == NewCount(conversations, batch)
                   fresh == SubSeq(merged, Len(conversations) + 1, Len(merged))
                   app == [conv |-> merged, cur |-> currentConversationId,
                           prov |-> Mark(prov, fresh, "file")]
                   c == [NewCall("handler", "idbSave", merged) EXCEPT
                            !.n = n, !.len0 = Len(conversations),
                            !.fresh = Cardinality(IdsOf(batch) \ IdsOf(conversations))]
               IN /\ Enter(s, c, app)
                  /\ added' = [valid |-> TRUE, batch |-> batch, before |-> conversations,
                               n |-> n,
                               repeat |-> added.valid /\ added.batch = batch]
            /\ UNCHANGED <<appPhase, idb>>
       ELSE /\ appPhase = "ready"
            /\ ~Draining
            /\ added' = NotAdded
            /\ settled' = Unsettled
            /\ UNCHANGED <<conversations, currentConversationId, appPhase, prov,
                           ls, idb, initPromise, txQueue, calls>>

FileNext ==
    \/ \E s \in Slots, file \in Files : ProcessFile(s, file)
    \/ \E ok \in BOOLEAN : OpenDone(ok)
    \/ \E s \in Slots : AwaitInit(s)
    \/ TxCommit
    \/ TxAbort

FileSpec == ImportInit /\ [][FileNext]_vars

----------------------------------------------------------------------------
(* Claims about file processing, checked under FileSpec *)

\* the kinds of failed input: unsupported extension, archive without
\* conversations.json, invalid JSON, no array or an empty one, a first element
\* of no recognized format, an exception in the normalizer
FailedInput(file) ==
    \/ file.ext \notin {".json", ".zip"}
    \/ file.ext = ".zip" /\ ~file.entry
    \/ ~file.text.valid
    \/ file.text.data.kind # "array"
    \/ file.text.data.items = <<>>
    \/ DetectFormat(file.text.data).kind = "threw"
    \/ file.text.throws

\* C24. A failed input does not affect loaded data: when processing a file
\* fails, no conversations-loaded event is dispatched (no addConversations
\* call is made), and the loaded set, the current selection and the persistent
\* store stay as they are.
C24_FailedInputNoEffect ==
    [][((raw' # raw \/ result' # result) /\ raw'.kind = "file" /\ FailedInput(raw'.file))
          => /\ result'.kind = "threw"
             /\ ~added'.valid
             /\ UNCHANGED <<conversations, currentConversationId, ls, idb, txQueue, calls>>]_vars

\* an archive without conversations.json was processed while conversations
\* were loaded and stored: an error is shown and they are all still there
C24_Witness ==
    /\ raw.kind = "file"
    /\ raw.file.ext = ".zip" /\ ~raw.file.entry
    /\ result = Threw("processFile", "conversations.json not found in ZIP file")
    /\ ~added.valid
    /\ Len(conversations) > 0
    /\ idb = ToSet(conversations)
    /\ currentConversationId # NoId

----------------------------------------------------------------------------
(* Saving and loading conversations with their timestamps: one call of the
   facade's saveConversations followed by one call of its loadConversations
   (storage.js 16-71, indexeddb.js 59-111), by a caller that awaits each call,
   each call taken as one step (C8: a save is all-or-nothing), from any
   content of backend A and an empty or non-empty backend B *)

\* a conversation in memory: created stands for created, updated and the
\* timestamp of every message, which are all instants treated alike
DatedConvs == [id : Ids, created : Dates]
DatedLists == UNION {[1..n -> DatedConvs] : n \in 0..MaxBatch}

\* the structured clone of a Date that IndexedDB stores
Cloned(d) == <<"Date", d>>
\* every timestamp is read as seconds
NewDateFromSeconds(v) == v[2] * 1000
\* new Date(value) for a stored Date or an ISO text
NewDate(v) == IF v[1] = "Date" THEN v[2] ELSE DateOfISO(v)

\* the record objectStore.add(conversation) stores
StoredRecord(c) == [id |-> c.id, created |-> Cloned(c.created)]
\* the callback of conversations.map in both load paths: indexeddb.js 98-106,
\* storage.js 56-64
Rehydrated(r) == [id |-> r.id, created |-> NewDate(r.created)]

RECURSIVE SortRecords(_)
\* getAll(): the records in the order of their keys
SortRecords(S) ==
    IF S = {} THEN <<>>
    ELSE LET m == CHOOSE x \in S : \A y \in S : x.id <= y.id
         IN <<m>> \o SortRecords(S \ {m})

\* what an earlier build left under STORAGE_KEY: JSON with ISO texts
LegacyValues ==
    {NoKey}
    \cup {[kind |-> "blob", data |-> <<[id |-> i, created |-> ToISOString(d)]>>] :
             i \in Ids, d \in 0..MaxTime}

NoPrev == [op |-> "none", ok |-> FALSE, list |-> <<>>]

\* Storage.saveConversations(list): the transaction commits, unless committed is
\* FALSE (the open failed, the commit failed) or an id is repeated
SaveAll(list, committed) ==
    LET ok == committed /\ UniqueIds(list) IN
    /\ ~Draining
    /\ idb' = IF ok THEN {StoredRecord(list[i]) : i \in 1..Len(list)} ELSE idb
    /\ settled' = [op |-> "save", ok |-> ok, list |-> list, read |-> FALSE,
                   a |-> ls, prev |-> NoPrev]
    /\ UNCHANGED <<conversations, currentConversationId, appPhase, prov, ls,
                   initPromise, txQueue, calls, added>>
    /\ UNCHANGED parseVars

\* Storage.loadConversations(): read is FALSE when backend B cannot be read
\* and indexeddb.js 107-110 gives []; migrated is whether the save of the
\* migration commits
LoadAll(read, migrated) ==
    LET fromB == IF read THEN SortRecords(idb) ELSE <<>>
        a == LoadFromLocalStorage(ls)
        rehydrate(l) == [i \in 1..Len(l) |-> Rehydrated(l[i])]
        prev == [op |-> settled.op, ok |-> settled.ok, list |-> settled.list]
    IN
    /\ ~Draining
    /\ IF NeedsMigration(fromB) /\ Len(a.ret) > 0
       THEN /\ idb' = IF migrated
                      THEN {StoredRecord(rehydrate(a.ret)[i]) : i \in 1..Len(a.ret)}
                      ELSE idb
            /\ ls' = AfterMigration(a.ls, migrated)
            /\ settled' = [op |-> "load", ok |-> TRUE, list |-> rehydrate(a.ret),
                           read |-> read, a |-> ls, prev |-> prev]
       ELSE /\ idb' = idb
            /\ ls' = a.ls
            /\ settled' = [op |-> "load", ok |-> TRUE, list |-> rehydrate(fromB),
                           read |-> read, a |-> ls, prev |-> prev]
    /\ UNCHANGED <<conversations, currentConversationId, appPhase, prov,
                   initPromise, txQueue, calls, added>>
    /\ UNCHANGED parseVars

PersistInit ==
    /\ ParserIdle
    /\ conversations = <<>>
    /\ currentConversationId = NoId
    /\ appPhase = "ready"
    /\ ls \in LegacyValues
    /\ idb \in {{}, {StoredRecord([id |-> 1, created |-> 0])}}
    /\ initPromise = "resolved"
    /\ txQueue = <<>>
    /\ calls = [s \in Slots |-> Idle]
    /\ settled = [op |-> "none", ok |-> FALSE, list |-> <<>>, read |-> FALSE,
                  a |-> NoKey, prev |-> NoPrev]
    /\ added = NotAdded
    /\ prov = [c \in Conv |-> "-"]

PersistNext ==
    \/ /\ settled.op = "none"
       /\ \E list \in DatedLists, committed \in BOOLEAN : SaveAll(list, committed)
    \/ /\ settled.op = "save"
       /\ \E read \in BOOLEAN, migrated \in BOOLEAN : LoadAll(read, migrated)

PersistSpec == PersistInit /\ [][PersistNext]_vars

----------------------------------------------------------------------------
(* Claims about saving and loading, checked under PersistSpec *)

\* the call before this load was a save of a list that committed, and the
\* load could read backend B
LoadedAfterSave ==
    /\ settled.op = "load" /\ settled.read
    /\ settled.prev.op = "save" /\ settled.prev.ok

\* the loaded list holds the conversations of the saved one, each with equal
\* id and equal instants
SameCollection(loaded, saved) ==
    /\ Len(loaded) = Len(saved)
    /\ ToSet(loaded) = ToSet(saved)

C25_EmptySaveLoadsLegacy ==
    /\ LoadedAfterSave
    /\ settled.prev.list = <<>>
    /\ settled.a.kind = "blob"
    /\ Len(settled.list) = 1

----------------------------------------------------------------------------
(* Claims about the loaded set: C1 holds under StateSpec and under Spec, the
   others are checked under Spec *)

\* C1. Merge is idempotent: for any loaded set and any batch B, when
\* addConversations(B) is called twice in a row, the second call leaves the
\* loaded set as the first call left it and inserts nothing again
\* (newConversations is empty).
C1_MergeIdempotent ==
    added.repeat => (conversations = added.before /\ added.n = 0)

C1_Witness ==
    /\ added.repeat
    /\ Len(added.batch) = 2
    /\ IdsOf(added.batch) \subseteq IdsOf(conversations)
    /\ Len(conversations) > Len(added.batch)

\* the entries of tail are entries of batch at increasing positions, and every
\* entry of batch at another position has an id of the set before
RestOfBatch(tail, batch, before) ==
    \E p \in [1..Len(tail) -> 1..Len(batch)] :
        /\ \A i, j \in 1..Len(tail) : i < j => p[i] < p[j]
        /\ \A i \in 1..Len(tail) : tail[i] = batch[p[i]]
        /\ \A k \in 1..Len(batch) :
               (\A i \in 1..Len(tail) : p[i] # k) => batch[k].id \in IdsOf(before)

\* C27. addConversations leaves every loaded conversation unchanged and in its
\* position, an incoming entry with a loaded id does not replace it, and the
\* new entries (those whose id was not loaded) come after them in the order of
\* the batch.  Checked under MergeSpec.
C27_LoadedKeptNewAppended ==
    added.valid
        => LET k == Len(added.before)
               tail == SubSeq(conversations, k + 1, Len(conversations))
           IN /\ Len(conversations) >= k
              /\ SubSeq(conversations, 1, k) = added.before
              /\ \A i \in 1..Len(tail) : tail[i].id \notin IdsOf(added.before)
              /\ RestOfBatch(tail, added.batch, added.before)

\* a batch with a later export of a loaded conversation and a new conversation
\* has been merged into a set of two: the loaded one is as it was
C27_Witness ==
    /\ added.valid
    /\ Len(added.before) = 2
    /\ Len(added.batch) = 2
    /\ added.batch[1].id = added.before[2].id
    /\ added.batch[1] # added.before[2]
    /\ added.batch[2].id \notin IdsOf(added.before)
    /\ conversations = added.before \o <<added.batch[2]>>

\* C28. An import handled while the start-up load is in flight loses nothing:
\* once App.init's Storage.loadConversations() and the handler of the
\* conversations-loaded event have both completed, the store still contains
\* every conversation persisted before start-up, and the loaded set contains
\* the persisted and the imported ones.  (The load's transaction is the older
\* one, so the handler is the call that completes last.)
C28_ImportDuringStartup ==
    (/\ settled.op = "handler" /\ settled.during
     /\ settled.status = "fulfilled" /\ settled.ok /\ NoCallInFlight)
        => /\ settled.pre \subseteq idb
           /\ settled.pre \subseteq ToSet(conversations)
           /\ ToSet(settled.list) \subseteq ToSet(conversations)

\* both have completed without any failure: the store holds the imported
\* conversation alone, the loaded set the persisted one alone
C28_LostAtStartup ==
    /\ settled.op = "handler" /\ settled.during
    /\ settled.status = "fulfilled" /\ settled.ok /\ NoCallInFlight
    /\ settled.pre # {}
    /\ idb = ToSet(settled.list)
    /\ idb \cap settled.pre = {}
    /\ ToSet(conversations) = settled.pre

C2_UniqueIds ==
    UniqueIds(conversations)

\* addConversations has just put a batch that repeats an id into a loaded set
\* whose ids were distinct
C2_RepeatedIdLoaded ==
    /\ added.valid
    /\ UniqueIds(added.before)
    /\ ~UniqueIds(added.batch)
    /\ ~UniqueIds(conversations)

\* C3. addConversations returns the number of newly added entries: the returned
\* count equals the size of the loaded set after the merge minus its size before,
\* and equals the number of distinct ids of the batch that were not loaded.
C3_ReturnedCount ==
    (settled.op = "handler" /\ settled.status = "fulfilled")
        => /\ settled.n = Len(settled.list) - settled.len0
           /\ settled.n = settled.fresh

\* addConversations has returned 2 for a batch that brought one new id
C3_CountedTwice ==
    /\ settled.op = "handler" /\ settled.status = "fulfilled"
    /\ settled.n = 2
    /\ settled.n = Len(settled.list) - settled.len0
    /\ settled.fresh = 1

\* C4. Conversations loaded from a URL are never persisted: no conversation
\* that entered the loaded set only through a URL import is in the persistent
\* store (backend B, or backend A's collection).
C4_UrlNeverPersisted ==
    \A c \in idb \cup ToSet(ls.data) : prov[c] # "url"

\* a save issued by a file import has stored a conversation that came from a URL
C4_UrlEntryStored ==
    /\ settled.op = "handler" /\ settled.status = "fulfilled" /\ settled.ok
    /\ \E c \in idb : prov[c] = "url" /\ c \notin settled.pre
    /\ \E c \in idb : prov[c] = "file" /\ c \notin settled.pre

====
